---- MODULE Spec2Model ----
(***************************************************************************)
(* Library management core: catalogue, borrow / return lifecycle and late  *)
(* fee quote of services/library_service.py, over an abstract storage      *)
(* layer (the `database` module) holding the books and borrow_records      *)
(* tables.                                                                 *)
(***************************************************************************)
EXTENDS Integers, Sequences, FiniteSets, Bags, TLC

(***************************************************************************)
(* Bounds of the model.                                                    *)
(***************************************************************************)
MaxRecords == 2        \* rows of the borrow_records table
MaxLoanRecords == 6    \* rows of borrow_records in the borrow-limit runs
MaxReportRecords == 3  \* rows of borrow_records in the status report runs
MaxDaysOverdue == 40   \* days a loan gets overdue in the late fee runs
MaxBorrowInstant == 1  \* last tick at which the late fee runs borrow
NumCallers == 2        \* borrow calls in flight at once in the interleaved runs

(***************************************************************************)
(* Program constants.                                                      *)
(***************************************************************************)
LoanDays == 14         \* timedelta(days=14)
MaxTitleLen == 200
MaxAuthorLen == 100
IsbnLen == 13
PatronIdLen == 6
FirstTierDays == 7
FirstTierRate == 50    \* cents per day
SecondTierRate == 100  \* cents per day
FeeCap == 1500         \* cents

TicksPerDay == 2       \* the clock counts half days
NULL == -1             \* return_date IS NULL

(***************************************************************************)
(* Inputs.  Identifiers are sequences of characters, as the code checks    *)
(* their length and their characters.                                      *)
(***************************************************************************)
Digits == {"0", "1", "2", "3", "4", "5", "6", "7", "8", "9"}

PatronA == <<"1", "2", "3", "4", "5", "6">>
PatronB == <<"6", "5", "4", "3", "2", "1">>
ValidPatrons == {PatronA, PatronB}
PatronInputs ==
    ValidPatrons \cup
    { <<>>,
      <<"a", "b", "c", "d", "e", "f">>,
      <<"1", "2", "3", "4", "5", "6", "7">> }

IsbnOf(d) == [i \in 1..IsbnLen |-> d]
IsbnA == IsbnOf("1")
IsbnB == IsbnOf("2")
ShortIsbn == [i \in 1..9 |-> "9"]
NonDigitIsbn == [i \in 1..IsbnLen |-> IF i = 4 THEN "x" ELSE "7"]

\* a title / an author is known by the length of its stripped text
AddReq(title, author, isbn, total_copies) ==
    [title |-> title, author |-> author, isbn |-> isbn,
     total_copies |-> total_copies]

AddInputs ==
    {AddReq(MaxTitleLen, MaxAuthorLen, IsbnA, 2),
     AddReq(MaxTitleLen, MaxAuthorLen, IsbnB, 1),
     AddReq(0, MaxAuthorLen, IsbnA, 1),
     AddReq(MaxTitleLen + 1, MaxAuthorLen, IsbnA, 1),
     AddReq(MaxTitleLen, 0, IsbnA, 1),
     AddReq(MaxTitleLen, MaxAuthorLen + 1, IsbnA, 1),
     AddReq(MaxTitleLen, MaxAuthorLen, ShortIsbn, 1),
     AddReq(MaxTitleLen, MaxAuthorLen, NonDigitIsbn, 1),
     AddReq(MaxTitleLen, MaxAuthorLen, IsbnA, 0),
     AddReq(0, 0, ShortIsbn, 0)}

\* a book id as the caller hands it over: an int, or something else
IntId(n) == [isInt |-> TRUE, val |-> n]
NotAnInt == [isInt |-> FALSE, val |-> 0]
BookIdInputs(n) == {IntId(i) : i \in 0..(n + 1)} \cup {NotAnInt}

\* transaction ids and amounts as the caller of a refund hands them over
TxnInputs ==
    {<<>>,
     <<"t", "x", "n", "_">>,
     <<"t", "x", "n", "_", "1">>,
     <<"t", "x", "n">>,
     <<"T", "X", "N", "_", "1">>,
     <<"1", "t", "x", "n", "_">>}

\* the instants the clock can show, in ticks
Instants == {0, (LoanDays + 1) * TicksPerDay + 1}

(***************************************************************************)
(* State.                                                                  *)
(***************************************************************************)
VARIABLES
    books,            \* the books table: row i is the book with id i
    borrow_records,   \* the borrow_records table, a bag of rows
    now,              \* datetime.now()
    callers           \* the borrow calls in flight: where each has got to

vars == <<books, borrow_records, now, callers>>

\* a borrow call in flight is at the storage call it makes next (pc), with
\* its arguments and, once it has returned, its result code
Caller(pc, p, b, code) ==
    [pc |-> pc, patron_id |-> p, book_id |-> b, code |-> code]
Idle == Caller("idle", <<>>, [isInt |-> FALSE, val |-> 0], "")
NoCallers == [i \in 1..NumCallers |-> Idle]

\* a returned (success, message): the message is known by its code, and by
\* the due date, fee and overdue days it prints
Res(op, code) ==
    [op |-> op, code |-> code,
     due_date |-> NULL, fee_amount |-> 0, days_overdue |-> 0]

Out(bks, recs, res, cs) ==
    [books |-> bks, borrow_records |-> recs, result |-> res, calls |-> cs]

(***************************************************************************)
(* Storage layer.                                                          *)
(***************************************************************************)
isdigit(s) == Len(s) > 0 /\ \A i \in 1..Len(s) : s[i] \in Digits

get_book_by_id(bks, id) == IF id \in DOMAIN bks THEN <<bks[id]>> ELSE <<>>

get_book_by_isbn(bks, isbn) ==
    LET hits == {i \in DOMAIN bks : bks[i].isbn = isbn}
    IN  IF hits = {} THEN <<>> ELSE <<bks[CHOOSE i \in hits : TRUE]>>

insert_book(bks, title, author, isbn, total, available) ==
    Append(bks, [title |-> title, author |-> author, isbn |-> isbn,
                 total_copies |-> total, available_copies |-> available])

update_book_availability(bks, id, delta) ==
    [i \in DOMAIN bks |->
        IF i = id THEN [bks[i] EXCEPT !.available_copies = @ + delta]
        ELSE bks[i]]

IsActive(r) == r.return_date = NULL

ActiveOf(recs, p, b) ==
    {r \in BagToSet(recs) : r.patron_id = p /\ r.book_id = b /\ IsActive(r)}

NumActive(recs, S) ==
    LET RECURSIVE Sum(_)
        Sum(T) == IF T = {} THEN 0
                  ELSE LET r == CHOOSE x \in T : TRUE
                       IN  CopiesIn(r, recs) + Sum(T \ {r})
    IN  Sum({r \in BagToSet(recs) : IsActive(r) /\ r \in S})

\* mutants of get_borrow_record: no row is ever found / returned rows count too
get_borrow_record_none(recs, p, b) == <<>>

get_borrow_record_any(recs, p, b) ==
    LET hits == {r \in BagToSet(recs) : r.patron_id = p /\ r.book_id = b}
    IN  IF hits = {} THEN <<>> ELSE <<CHOOSE r \in hits : TRUE>>

get_borrow_record(recs, p, b) ==
    LET hits == ActiveOf(recs, p, b)
    IN  IF hits = {} THEN <<>> ELSE <<CHOOSE r \in hits : TRUE>>

get_patron_borrow_count(recs, p) ==
    NumActive(recs, {r \in BagToSet(recs) : r.patron_id = p})

insert_borrow_record(recs, p, b, borrow_date, due_date) ==
    recs (+) SetToBag({[patron_id |-> p, book_id |-> b,
                        borrow_date |-> borrow_date, due_date |-> due_date,
                        return_date |-> NULL]})

CloseRow(p, b, t, r) ==
    IF r.patron_id = p /\ r.book_id = b /\ IsActive(r)
    THEN [r EXCEPT !.return_date = t] ELSE r

update_borrow_record_return_date(recs, p, b, t) ==
    LET close(r) == CloseRow(p, b, t, r)
    IN  BagOfAll(close, recs)

(***************************************************************************)
(* Late fee quote.                                                         *)
(***************************************************************************)
Max(a, b) == IF a >= b THEN a ELSE b
Min(a, b) == IF a <= b THEN a ELSE b

\* (now - due).days: timedelta normalises to whole days rounding down
DeltaDays(from, to) == (to - from) \div TicksPerDay

\* mutant of DaysOverdue: a day that has begun counts as a day
DaysOverdue_begun(due, at) ==
    Max(0, (at - due + TicksPerDay - 1) \div TicksPerDay)

DaysOverdue(due, at) == Max(0, DeltaDays(due, at))

\* mutant of TieredFee: the second rate is charged from the seventh day on
TieredFee_early(days) ==
    Min(Min(days, FirstTierDays - 1) * FirstTierRate
          + Max(0, days - (FirstTierDays - 1)) * SecondTierRate,
        FeeCap)

TieredFee(days) ==
    Min(Min(days, FirstTierDays) * FirstTierRate
          + Max(0, days - FirstTierDays) * SecondTierRate,
        FeeCap)

calculate_late_fee_for_book(rec, at) ==
    IF rec = <<>> THEN [fee_amount |-> 0, days_overdue |-> 0, status |-> "ok"]
    ELSE LET days == DaysOverdue(rec[1].due_date, at)
         IN  [fee_amount |-> TieredFee(days), days_overdue |-> days,
              status |-> "ok"]

(***************************************************************************)
(* Operations of the service.  Each takes the tables, the clock and the    *)
(* caller's arguments, and for every storage write whether the storage     *)
(* layer reports success; a write that reports failure changes nothing.    *)
(***************************************************************************)
valid_patron_id(p) == ~(p = <<>> \/ ~isdigit(p) \/ Len(p) # PatronIdLen)

valid_isbn(isbn) == ~(Len(isbn) # IsbnLen \/ ~isdigit(isbn))

BorrowLimit == 5

\* mutant of LimitReached: the limit is enforced one loan late
LimitReached_over(current_borrowed) == current_borrowed > BorrowLimit

LimitReached(current_borrowed) == current_borrowed >= BorrowLimit

\* mutant of DueDate: a one week loan
DueDate_week(borrow_date) == borrow_date + 7 * TicksPerDay

\* mutant of DueDate: the loan is due a day early
DueDate_early(borrow_date) == borrow_date + (LoanDays - 1) * TicksPerDay

DueDate(borrow_date) == borrow_date + LoanDays * TicksPerDay

\* mutants of add_book_to_catalog: the new book starts with no copy
\* available / an ISBN that is taken is accepted
add_book_to_catalog_none_available(bks, title, author, isbn, total_copies, insOk) ==
    LET R(code) == Res("add", code)
    IN  IF title = 0 THEN Out(bks, <<>>, R("InvalidTitle"), <<>>)
        ELSE IF title > MaxTitleLen THEN Out(bks, <<>>, R("InvalidTitle"), <<>>)
        ELSE IF author = 0 THEN Out(bks, <<>>, R("InvalidAuthor"), <<>>)
        ELSE IF author > MaxAuthorLen
             THEN Out(bks, <<>>, R("InvalidAuthor"), <<>>)
        ELSE IF ~valid_isbn(isbn) THEN Out(bks, <<>>, R("InvalidIsbn"), <<>>)
        ELSE IF total_copies <= 0 THEN Out(bks, <<>>, R("InvalidCopies"), <<>>)
        ELSE IF get_book_by_isbn(bks, isbn) # <<>>
             THEN Out(bks, <<>>, R("DuplicateIsbn"), <<"get_book_by_isbn">>)
        ELSE IF insOk
             THEN Out(insert_book(bks, title, author, isbn,
                                  total_copies, 0),
                      <<>>, R("Success"),
                      <<"get_book_by_isbn", "insert_book">>)
        ELSE Out(bks, <<>>, R("StorageFailure"),
                 <<"get_book_by_isbn", "insert_book">>)

add_book_to_catalog_unchecked_isbn(bks, title, author, isbn, total_copies, insOk) ==
    LET R(code) == Res("add", code)
    IN  IF title = 0 THEN Out(bks, <<>>, R("InvalidTitle"), <<>>)
        ELSE IF title > MaxTitleLen THEN Out(bks, <<>>, R("InvalidTitle"), <<>>)
        ELSE IF author = 0 THEN Out(bks, <<>>, R("InvalidAuthor"), <<>>)
        ELSE IF author > MaxAuthorLen
             THEN Out(bks, <<>>, R("InvalidAuthor"), <<>>)
        ELSE IF ~valid_isbn(isbn) THEN Out(bks, <<>>, R("InvalidIsbn"), <<>>)
        ELSE IF total_copies <= 0 THEN Out(bks, <<>>, R("InvalidCopies"), <<>>)
        ELSE IF FALSE
             THEN Out(bks, <<>>, R("DuplicateIsbn"), <<"get_book_by_isbn">>)
        ELSE IF insOk
             THEN Out(insert_book(bks, title, author, isbn,
                                  total_copies, total_copies),
                      <<>>, R("Success"),
                      <<"get_book_by_isbn", "insert_book">>)
        ELSE Out(bks, <<>>, R("StorageFailure"),
                 <<"get_book_by_isbn", "insert_book">>)

add_book_to_catalog(bks, title, author, isbn, total_copies, insOk) ==
    LET R(code) == Res("add", code)
    IN  IF title = 0 THEN Out(bks, <<>>, R("InvalidTitle"), <<>>)
        ELSE IF title > MaxTitleLen THEN Out(bks, <<>>, R("InvalidTitle"), <<>>)
        ELSE IF author = 0 THEN Out(bks, <<>>, R("InvalidAuthor"), <<>>)
        ELSE IF author > MaxAuthorLen
             THEN Out(bks, <<>>, R("InvalidAuthor"), <<>>)
        ELSE IF ~valid_isbn(isbn) THEN Out(bks, <<>>, R("InvalidIsbn"), <<>>)
        ELSE IF total_copies <= 0 THEN Out(bks, <<>>, R("InvalidCopies"), <<>>)
        ELSE IF get_book_by_isbn(bks, isbn) # <<>>
             THEN Out(bks, <<>>, R("DuplicateIsbn"), <<"get_book_by_isbn">>)
        ELSE IF insOk
             THEN Out(insert_book(bks, title, author, isbn,
                                  total_copies, total_copies),
                      <<>>, R("Success"),
                      <<"get_book_by_isbn", "insert_book">>)
        ELSE Out(bks, <<>>, R("StorageFailure"),
                 <<"get_book_by_isbn", "insert_book">>)

Checked(code, cs) == [code |-> code, calls |-> cs]

\* mutant of borrow_validation: the limit is checked before the availability
borrow_validation_limit_first(bks, recs, p, b) ==
    LET book == get_book_by_id(bks, b.val)
        c1 == <<"get_book_by_id">>
        c2 == Append(c1, "get_patron_borrow_count")
        c3 == Append(c2, "get_borrow_record")
    IN  IF ~valid_patron_id(p) THEN Checked("InvalidPatron", <<>>)
        ELSE IF ~b.isInt THEN Checked("InvalidBookId", <<>>)
        ELSE IF book = <<>> THEN Checked("BookNotFound", c1)
        ELSE IF LimitReached(get_patron_borrow_count(recs, p))
             THEN Checked("BorrowLimitExceeded", c2)
        ELSE IF book[1].available_copies <= 0
             THEN Checked("BookUnavailable", c2)
        ELSE IF get_borrow_record(recs, p, b.val) # <<>>
             THEN Checked("DuplicateActiveLoan", c3)
        ELSE Checked("ok", c3)

\* the checks of a borrow, in order: the first that fails, or "ok"
borrow_validation(bks, recs, p, b) ==
    LET book == get_book_by_id(bks, b.val)
        c1 == <<"get_book_by_id">>
        c2 == Append(c1, "get_patron_borrow_count")
        c3 == Append(c2, "get_borrow_record")
    IN  IF ~valid_patron_id(p) THEN Checked("InvalidPatron", <<>>)
        ELSE IF ~b.isInt THEN Checked("InvalidBookId", <<>>)
        ELSE IF book = <<>> THEN Checked("BookNotFound", c1)
        ELSE IF book[1].available_copies <= 0
             THEN Checked("BookUnavailable", c1)
        ELSE IF LimitReached(get_patron_borrow_count(recs, p))
             THEN Checked("BorrowLimitExceeded", c2)
        ELSE IF get_borrow_record(recs, p, b.val) # <<>>
             THEN Checked("DuplicateActiveLoan", c3)
        ELSE Checked("ok", c3)

\* the compensation of a borrow whose decrement failed; its outcome is not read
borrow_compensation(recs, t, p, b, closeOk) ==
    IF closeOk THEN update_borrow_record_return_date(recs, p, b.val, t)
    ELSE recs

\* mutant of borrow_writes: a failed insert does not end the borrow
borrow_writes_decrement_anyway(bks, recs, t, p, b, insOk, decOk, closeOk) ==
    LET R(code) == Res("borrow", code)
        c1 == <<"insert_borrow_record">>
        c2 == Append(c1, "update_book_availability")
        c3 == Append(c2, "update_borrow_record_return_date")
        due_date == DueDate(t)
        recs1 == IF insOk
                 THEN insert_borrow_record(recs, p, b.val, t, due_date)
                 ELSE recs
    IN  IF ~decOk
        THEN Out(bks, borrow_compensation(recs1, t, p, b, closeOk),
                 R("StorageFailure"), c3)
        ELSE Out(update_book_availability(bks, b.val, -1), recs1,
                 IF insOk THEN [R("Success") EXCEPT !.due_date = due_date]
                 ELSE R("StorageFailure"), c2)

\* the writes of a borrow that passed its checks
borrow_writes(bks, recs, t, p, b, insOk, decOk, closeOk) ==
    LET R(code) == Res("borrow", code)
        c1 == <<"insert_borrow_record">>
        c2 == Append(c1, "update_book_availability")
        c3 == Append(c2, "update_borrow_record_return_date")
        borrow_date == t
        due_date == DueDate(borrow_date)
        recs1 == insert_borrow_record(recs, p, b.val, borrow_date, due_date)
    IN  IF ~insOk THEN Out(bks, recs, R("StorageFailure"), c1)
        ELSE IF ~decOk
             THEN Out(bks, borrow_compensation(recs1, t, p, b, closeOk),
                      R("StorageFailure"), c3)
        ELSE Out(update_book_availability(bks, b.val, -1), recs1,
                 [R("Success") EXCEPT !.due_date = due_date], c2)

borrow_book_by_patron(bks, recs, t, p, b, insOk, decOk, closeOk) ==
    LET v == borrow_validation(bks, recs, p, b)
        w == borrow_writes(bks, recs, t, p, b, insOk, decOk, closeOk)
    IN  IF v.code # "ok" THEN Out(bks, recs, Res("borrow", v.code), v.calls)
        ELSE [w EXCEPT !.calls = v.calls \o @]

\* the checks of a return, in order: the first that fails, or "ok"
return_validation(bks, recs, p, b) ==
    LET book == get_book_by_id(bks, b.val)
        c1 == <<"get_book_by_id">>
        c2 == Append(c1, "get_borrow_record")
    IN  IF ~valid_patron_id(p) THEN Checked("InvalidPatron", <<>>)
        ELSE IF b.val = 0 \/ ~b.isInt THEN Checked("InvalidBookId", <<>>)
        ELSE IF book = <<>> THEN Checked("BookNotFound", c1)
        ELSE IF get_borrow_record(recs, p, b.val) = <<>>
             THEN Checked("NoActiveLoan", c2)
        ELSE Checked("ok", c2)

\* mutants of return_writes: the increment is left out / comes first
return_writes_no_increment(bks, recs, t, p, b, rdOk, incOk) ==
    LET R(code) == Res("return", code)
        fee == calculate_late_fee_for_book(get_borrow_record(recs, p, b.val), t)
        c1 == <<"update_borrow_record_return_date">>
        recs1 == update_borrow_record_return_date(recs, p, b.val, t)
    IN  IF ~rdOk THEN Out(bks, recs, R("StorageFailure"), c1)
        ELSE Out(bks, recs1,
                 [R("Success") EXCEPT !.fee_amount = fee.fee_amount,
                                      !.days_overdue = fee.days_overdue],
                 c1)

return_writes_increment_first(bks, recs, t, p, b, rdOk, incOk) ==
    LET R(code) == Res("return", code)
        fee == calculate_late_fee_for_book(get_borrow_record(recs, p, b.val), t)
        c1 == <<"update_book_availability">>
        c2 == Append(c1, "update_borrow_record_return_date")
        bks1 == update_book_availability(bks, b.val, 1)
        recs1 == update_borrow_record_return_date(recs, p, b.val, t)
    IN  IF ~incOk THEN Out(bks, recs, R("StorageFailure"), c1)
        ELSE IF ~rdOk THEN Out(bks1, recs, R("StorageFailure"), c2)
        ELSE Out(bks1, recs1,
                 [R("Success") EXCEPT !.fee_amount = fee.fee_amount,
                                      !.days_overdue = fee.days_overdue],
                 c2)

\* mutant of return_writes: the record of the loan is deleted
return_writes_deletes_row(bks, recs, t, p, b, rdOk, incOk) ==
    LET R(code) == Res("return", code)
        fee == calculate_late_fee_for_book(get_borrow_record(recs, p, b.val), t)
        c1 == <<"update_borrow_record_return_date">>
        c2 == Append(c1, "update_book_availability")
        recs1 == recs (-) SetToBag({get_borrow_record(recs, p, b.val)[1]})
    IN  IF ~rdOk THEN Out(bks, recs, R("StorageFailure"), c1)
        ELSE IF ~incOk THEN Out(bks, recs1, R("StorageFailure"), c2)
        ELSE Out(update_book_availability(bks, b.val, 1), recs1,
                 [R("Success") EXCEPT !.fee_amount = fee.fee_amount,
                                      !.days_overdue = fee.days_overdue],
                 c2)

\* mutant of return_writes: the copy is counted twice
return_writes_double_increment(bks, recs, t, p, b, rdOk, incOk) ==
    LET R(code) == Res("return", code)
        fee == calculate_late_fee_for_book(get_borrow_record(recs, p, b.val), t)
        c1 == <<"update_borrow_record_return_date">>
        c2 == Append(c1, "update_book_availability")
        recs1 == update_borrow_record_return_date(recs, p, b.val, t)
    IN  IF ~rdOk THEN Out(bks, recs, R("StorageFailure"), c1)
        ELSE IF ~incOk THEN Out(bks, recs1, R("StorageFailure"), c2)
        ELSE Out(update_book_availability(bks, b.val, 2), recs1,
                 [R("Success") EXCEPT !.fee_amount = fee.fee_amount,
                                      !.days_overdue = fee.days_overdue],
                 c2)

\* the fee quote and the writes of a return that passed its checks
return_writes(bks, recs, t, p, b, rdOk, incOk) ==
    LET R(code) == Res("return", code)
        fee == calculate_late_fee_for_book(get_borrow_record(recs, p, b.val), t)
        c1 == <<"update_borrow_record_return_date">>
        c2 == Append(c1, "update_book_availability")
        recs1 == update_borrow_record_return_date(recs, p, b.val, t)
    IN  IF ~rdOk THEN Out(bks, recs, R("StorageFailure"), c1)
        ELSE IF ~incOk THEN Out(bks, recs1, R("StorageFailure"), c2)
        ELSE Out(update_book_availability(bks, b.val, 1), recs1,
                 [R("Success") EXCEPT !.fee_amount = fee.fee_amount,
                                      !.days_overdue = fee.days_overdue],
                 c2)

return_book_by_patron(bks, recs, t, p, b, rdOk, incOk) ==
    LET v == return_validation(bks, recs, p, b)
        w == return_writes(bks, recs, t, p, b, rdOk, incOk)
    IN  IF v.code # "ok" THEN Out(bks, recs, Res("return", v.code), v.calls)
        ELSE [w EXCEPT !.calls = v.calls \o @]

(***************************************************************************)
(* Payment gateway.  A call of the gateway reports success or failure, or  *)
(* raises; a message is known by its text.                                 *)
(***************************************************************************)
NoTxn == <<>>          \* None

Reply(success, raises, transaction_id, message) ==
    [success |-> success, raises |-> raises,
     transaction_id |-> transaction_id, message |-> message]

GatewayReplies ==
    {Reply(TRUE, FALSE, <<"t", "x", "n", "_", "1">>, "Success"),
     Reply(FALSE, FALSE, NoTxn, "Card declined"),
     Reply(FALSE, FALSE, <<"t", "x", "n", "_", "2">>, "Insufficient funds"),
     Reply(FALSE, TRUE, NoTxn, "Network error")}

\* the (success, message, transaction_id) of pay_late_fees and the
\* (success, message) of refund_late_fee_payment
PayRes(op, code, message, transaction_id) ==
    [op |-> op, code |-> code, message |-> message,
     transaction_id |-> transaction_id]

\* result, storage and gateway calls in order, and the arguments of the
\* gateway calls
PayOut(res, cs, sent) == [result |-> res, calls |-> cs, sent |-> sent]

\* mutant of pay_late_fees: a fee of zero is sent to the gateway as well
pay_late_fees_zero_charged(bks, recs, t, p, b, gw) ==
    LET R(code, msg, txn) == PayRes("pay", code, msg, txn)
        fee_info == calculate_late_fee_for_book(
                        get_borrow_record(recs, p, b.val), t)
        fee_amount == fee_info.fee_amount
        book == get_book_by_id(bks, b.val)
        c1 == <<"get_borrow_record">>
        c2 == Append(c1, "get_book_by_id")
        c3 == Append(c2, "process_payment")
        sent == <<[patron_id |-> p, amount |-> fee_amount]>>
    IN  IF ~valid_patron_id(p)
        THEN PayOut(R("InvalidPatron", "", NoTxn), <<>>, <<>>)
        ELSE IF fee_amount < 0
        THEN PayOut(R("NoFeeDue", "", NoTxn), c1, <<>>)
        ELSE IF book = <<>>
        THEN PayOut(R("BookNotFound", "", NoTxn), c2, <<>>)
        ELSE IF gw.raises
        THEN PayOut(R("PaymentError", gw.message, NoTxn), c3, sent)
        ELSE IF gw.success
        THEN PayOut(R("Success", gw.message, gw.transaction_id), c3, sent)
        ELSE PayOut(R("PaymentDeclined", gw.message, NoTxn), c3, sent)

\* mutant of pay_late_fees: a fault of the gateway is not caught
pay_late_fees_uncaught(bks, recs, t, p, b, gw) ==
    LET R(code, msg, txn) == PayRes("pay", code, msg, txn)
        fee_info == calculate_late_fee_for_book(
                        get_borrow_record(recs, p, b.val), t)
        fee_amount == fee_info.fee_amount
        book == get_book_by_id(bks, b.val)
        c1 == <<"get_borrow_record">>
        c2 == Append(c1, "get_book_by_id")
        c3 == Append(c2, "process_payment")
        sent == <<[patron_id |-> p, amount |-> fee_amount]>>
    IN  IF ~valid_patron_id(p)
        THEN PayOut(R("InvalidPatron", "", NoTxn), <<>>, <<>>)
        ELSE IF fee_amount <= 0
        THEN PayOut(R("NoFeeDue", "", NoTxn), c1, <<>>)
        ELSE IF book = <<>>
        THEN PayOut(R("BookNotFound", "", NoTxn), c2, <<>>)
        ELSE IF gw.raises
        THEN PayOut(R("Raised", gw.message, NoTxn), c3, sent)
        ELSE IF gw.success
        THEN PayOut(R("Success", gw.message, gw.transaction_id), c3, sent)
        ELSE PayOut(R("PaymentDeclined", gw.message, NoTxn), c3, sent)

\* mutant of pay_late_fees: the transaction id of a declined payment is kept
pay_late_fees_keeps_txn(bks, recs, t, p, b, gw) ==
    LET R(code, msg, txn) == PayRes("pay", code, msg, txn)
        fee_info == calculate_late_fee_for_book(
                        get_borrow_record(recs, p, b.val), t)
        fee_amount == fee_info.fee_amount
        book == get_book_by_id(bks, b.val)
        c1 == <<"get_borrow_record">>
        c2 == Append(c1, "get_book_by_id")
        c3 == Append(c2, "process_payment")
        sent == <<[patron_id |-> p, amount |-> fee_amount]>>
    IN  IF ~valid_patron_id(p)
        THEN PayOut(R("InvalidPatron", "", NoTxn), <<>>, <<>>)
        ELSE IF fee_amount <= 0
        THEN PayOut(R("NoFeeDue", "", NoTxn), c1, <<>>)
        ELSE IF book = <<>>
        THEN PayOut(R("BookNotFound", "", NoTxn), c2, <<>>)
        ELSE IF gw.raises
        THEN PayOut(R("PaymentError", gw.message, NoTxn), c3, sent)
        ELSE IF gw.success
        THEN PayOut(R("Success", gw.message, gw.transaction_id), c3, sent)
        ELSE PayOut(R("PaymentDeclined", gw.message, gw.transaction_id),
                    c3, sent)

\* the fee quote is that of the patron's active record of the book, if any;
\* the book id is handed to the storage layer as it came
\* mutant of pay_late_fees: the book is resolved before the fee is looked at
pay_late_fees_book_first(bks, recs, t, p, b, gw) ==
    LET R(code, msg, txn) == PayRes("pay", code, msg, txn)
        fee_info == calculate_late_fee_for_book(
                        get_borrow_record(recs, p, b.val), t)
        fee_amount == fee_info.fee_amount
        book == get_book_by_id(bks, b.val)
        c1 == <<"get_borrow_record">>
        c2 == Append(c1, "get_book_by_id")
        c3 == Append(c2, "process_payment")
        sent == <<[patron_id |-> p, amount |-> fee_amount]>>
    IN  IF ~valid_patron_id(p)
        THEN PayOut(R("InvalidPatron", "", NoTxn), <<>>, <<>>)
        ELSE IF "fee_amount" \notin DOMAIN fee_info
        THEN PayOut(R("FeeUnavailable", "", NoTxn), c1, <<>>)
        ELSE IF book = <<>>
        THEN PayOut(R("BookNotFound", "", NoTxn), c2, <<>>)
        ELSE IF fee_amount <= 0
        THEN PayOut(R("NoFeeDue", "", NoTxn), c2, <<>>)
        ELSE IF gw.raises
        THEN PayOut(R("PaymentError", gw.message, NoTxn), c3, sent)
        ELSE IF gw.success
        THEN PayOut(R("Success", gw.message, gw.transaction_id), c3, sent)
        ELSE PayOut(R("PaymentDeclined", gw.message, NoTxn), c3, sent)

\* mutant of pay_late_fees: a payment that went through closes the loan
pay_late_fees_closes_loan(bks, recs, t, p, b, gw) ==
    LET R(code, msg, txn) == PayRes("pay", code, msg, txn)
        fee_info == calculate_late_fee_for_book(
                        get_borrow_record(recs, p, b.val), t)
        fee_amount == fee_info.fee_amount
        book == get_book_by_id(bks, b.val)
        c1 == <<"get_borrow_record">>
        c2 == Append(c1, "get_book_by_id")
        c3 == Append(c2, "process_payment")
        sent == <<[patron_id |-> p, amount |-> fee_amount]>>
    IN  IF ~valid_patron_id(p)
        THEN PayOut(R("InvalidPatron", "", NoTxn), <<>>, <<>>)
        ELSE IF "fee_amount" \notin DOMAIN fee_info
        THEN PayOut(R("FeeUnavailable", "", NoTxn), c1, <<>>)
        ELSE IF fee_amount <= 0
        THEN PayOut(R("NoFeeDue", "", NoTxn), c1, <<>>)
        ELSE IF book = <<>>
        THEN PayOut(R("BookNotFound", "", NoTxn), c2, <<>>)
        ELSE IF gw.raises
        THEN PayOut(R("PaymentError", gw.message, NoTxn), c3, sent)
        ELSE IF gw.success
        THEN PayOut(R("Success", gw.message, gw.transaction_id),
                    Append(c3, "update_borrow_record_return_date"), sent)
        ELSE PayOut(R("PaymentDeclined", gw.message, NoTxn), c3, sent)

\* mutant of pay_late_fees: the fee is that of any loan of the book by the
\* patron, a returned one too
pay_late_fees_any_loan(bks, recs, t, p, b, gw) ==
    LET R(code, msg, txn) == PayRes("pay", code, msg, txn)
        fee_info == calculate_late_fee_for_book(
                        get_borrow_record_any(recs, p, b.val), t)
        fee_amount == fee_info.fee_amount
        book == get_book_by_id(bks, b.val)
        c1 == <<"get_borrow_record">>
        c2 == Append(c1, "get_book_by_id")
        c3 == Append(c2, "process_payment")
        sent == <<[patron_id |-> p, amount |-> fee_amount]>>
    IN  IF ~valid_patron_id(p)
        THEN PayOut(R("InvalidPatron", "", NoTxn), <<>>, <<>>)
        ELSE IF "fee_amount" \notin DOMAIN fee_info
        THEN PayOut(R("FeeUnavailable", "", NoTxn), c1, <<>>)
        ELSE IF fee_amount <= 0
        THEN PayOut(R("NoFeeDue", "", NoTxn), c1, <<>>)
        ELSE IF book = <<>>
        THEN PayOut(R("BookNotFound", "", NoTxn), c2, <<>>)
        ELSE IF gw.raises
        THEN PayOut(R("PaymentError", gw.message, NoTxn), c3, sent)
        ELSE IF gw.success
        THEN PayOut(R("Success", gw.message, gw.transaction_id), c3, sent)
        ELSE PayOut(R("PaymentDeclined", gw.message, NoTxn), c3, sent)

pay_late_fees(bks, recs, t, p, b, gw) ==
    LET R(code, msg, txn) == PayRes("pay", code, msg, txn)
        fee_info == calculate_late_fee_for_book(
                        get_borrow_record(recs, p, b.val), t)
        fee_amount == fee_info.fee_amount
        book == get_book_by_id(bks, b.val)
        c1 == <<"get_borrow_record">>
        c2 == Append(c1, "get_book_by_id")
        c3 == Append(c2, "process_payment")
        sent == <<[patron_id |-> p, amount |-> fee_amount]>>
    IN  IF ~valid_patron_id(p)
        THEN PayOut(R("InvalidPatron", "", NoTxn), <<>>, <<>>)
        ELSE IF "fee_amount" \notin DOMAIN fee_info
        THEN PayOut(R("FeeUnavailable", "", NoTxn), c1, <<>>)
        ELSE IF fee_amount <= 0
        THEN PayOut(R("NoFeeDue", "", NoTxn), c1, <<>>)
        ELSE IF book = <<>>
        THEN PayOut(R("BookNotFound", "", NoTxn), c2, <<>>)
        ELSE IF gw.raises
        THEN PayOut(R("PaymentError", gw.message, NoTxn), c3, sent)
        ELSE IF gw.success
        THEN PayOut(R("Success", gw.message, gw.transaction_id), c3, sent)
        ELSE PayOut(R("PaymentDeclined", gw.message, NoTxn), c3, sent)

\* a float amount: a number of cents, or not a number
Amount(cents) == [nan |-> FALSE, cents |-> cents]
NaN == [nan |-> TRUE, cents |-> 0]

\* float comparisons: every comparison with a NaN is false
LessEq(a, cents) == ~a.nan /\ a.cents <= cents
Greater(a, cents) == ~a.nan /\ a.cents > cents

AmountInputs ==
    {Amount(-1000), Amount(0), Amount(1), Amount(500), Amount(FeeCap),
     Amount(FeeCap + 1), Amount(2000), NaN}

TxnPrefix == <<"t", "x", "n", "_">>

startswith(s, prefix) ==
    Len(s) >= Len(prefix) /\ SubSeq(s, 1, Len(prefix)) = prefix

refund_late_fee_payment(transaction_id, amount, gw) ==
    LET R(code, msg) == PayRes("refund", code, msg, NoTxn)
        c1 == <<"refund_payment">>
        sent == <<[transaction_id |-> transaction_id, amount |-> amount]>>
    IN  IF transaction_id = <<>> \/ ~startswith(transaction_id, TxnPrefix)
        THEN PayOut(R("InvalidTransactionId", ""), <<>>, <<>>)
        ELSE IF LessEq(amount, 0)
        THEN PayOut(R("InvalidAmount", ""), <<>>, <<>>)
        ELSE IF Greater(amount, FeeCap)
        THEN PayOut(R("AmountExceedsMax", ""), <<>>, <<>>)
        ELSE IF gw.raises
        THEN PayOut(R("RefundError", gw.message), c1, sent)
        ELSE IF gw.success
        THEN PayOut(R("Success", gw.message), c1, sent)
        ELSE PayOut(R("RefundDeclined", gw.message), c1, sent)

(***************************************************************************)
(* Patron status report.  The rows of a query come in an order the query   *)
(* leaves open: every order it allows is a possible answer.                *)
(***************************************************************************)
SeqCount(s, r) == Cardinality({i \in DOMAIN s : s[i] = r})

\* the sequences that list every row of the bag B as often as B holds it
Orderings(B) ==
    {s \in [1..BagCardinality(B) -> BagToSet(B)] :
        \A r \in BagToSet(B) : SeqCount(s, r) = CopiesIn(r, B)}

\* the rows of the bag that lie in the set S
Select(recs, S) == [r \in BagToSet(recs) \cap S |-> recs[r]]

RECURSIVE SumFees(_)
SumFees(loans) ==
    IF loans = <<>> THEN 0
    ELSE loans[1].current_fee + SumFees(Tail(loans))

get_patron_borrowed_books(recs, p) ==
    Orderings(Select(recs, {r \in BagToSet(recs) :
                               r.patron_id = p /\ IsActive(r)}))

\* mutant of history_query: only the active rows
history_query_active(bks, recs, p) ==
    LET rows == Select(recs, {r \in BagToSet(recs) :
                                 /\ r.patron_id = p
                                 /\ r.book_id \in DOMAIN bks
                                 /\ IsActive(r)})
    IN  {s \in Orderings(rows) :
            \A i \in DOMAIN s, j \in DOMAIN s :
                i < j => s[i].borrow_date >= s[j].borrow_date}

\* SELECT ... FROM borrow_records br JOIN books b ON b.id = br.book_id
\* WHERE br.patron_id = ? ORDER BY br.borrow_date DESC
history_query(bks, recs, p) ==
    LET rows == Select(recs, {r \in BagToSet(recs) :
                                 r.patron_id = p /\ r.book_id \in DOMAIN bks})
    IN  {s \in Orderings(rows) :
            \A i \in DOMAIN s, j \in DOMAIN s :
                i < j => s[i].borrow_date >= s[j].borrow_date}

\* the connection hands a date column back as text (an ISO string) or as a
\* datetime
DatesAsText == {TRUE, FALSE}

\* the end-of-period fee of a row of the history: the quote from the row's
\* due date to its return date, or to now for a row not yet returned; the
\* quote subtracts the due date from the end, and when the end is the text
\* of a return date the subtraction raises TypeError, which is caught and
\* answered with a fee of zero
history_end_fee(row, t, as_text) ==
    LET ret_dt == row.return_date
        end_dt == IF ret_dt # NULL THEN ret_dt ELSE t
    IN  IF ret_dt # NULL /\ as_text
        THEN [fee_amount |-> 0, days_overdue |-> 0]
        ELSE calculate_late_fee_for_book(<<row>>, end_dt)

\* the history of the report, one entry for every row of the history query
report_history(rows, t, as_text) ==
    [i \in DOMAIN rows |->
        [book_id |-> rows[i].book_id,
         borrow_date |-> rows[i].borrow_date,
         due_date |-> rows[i].due_date,
         return_date |-> rows[i].return_date,
         days_overdue_at_end |->
             history_end_fee(rows[i], t, as_text).days_overdue,
         late_fee_at_end |-> history_end_fee(rows[i], t, as_text).fee_amount]]

Report(code, loans, total, history, cs) ==
    [code |-> code, current_loans |-> loans, current_count |-> Len(loans),
     total_late_fees |-> total, history |-> history, calls |-> cs]

\* mutant of get_patron_status_report: the fee of a loan is taken from the
\* row of the loan at its end, and summed over the whole history
get_patron_status_report_all_fees(bks, recs, t, p, active, rows) ==
    LET loan(a, fee_info) ==
            [book_id |-> a.book_id, borrow_date |-> a.borrow_date,
             due_date |-> a.due_date,
             is_overdue |-> fee_info.days_overdue > 0,
             days_overdue |-> fee_info.days_overdue,
             current_fee |-> fee_info.fee_amount]
        current_loans ==
            [i \in DOMAIN active |->
                loan(active[i],
                     calculate_late_fee_for_book(
                         get_borrow_record(recs, p, active[i].book_id), t))]
        all_loans ==
            [i \in DOMAIN rows |->
                loan(rows[i], calculate_late_fee_for_book(<<rows[i]>>, t))]
        history ==
            [i \in DOMAIN rows |->
                [book_id |-> rows[i].book_id,
                 borrow_date |-> rows[i].borrow_date,
                 due_date |-> rows[i].due_date,
                 return_date |-> rows[i].return_date]]
    IN  IF ~valid_patron_id(p)
        THEN Report("InvalidPatron", <<>>, 0, <<>>, <<>>)
        ELSE Report("ok", current_loans, SumFees(all_loans), history,
                    <<"get_patron_borrowed_books">>
                      \o [i \in DOMAIN active |-> "get_borrow_record"]
                      \o <<"get_db_connection">>)

\* the report of patron p at instant t, when the storage layer answered the
\* query of the active loans with `active` and the history query with `rows`;
\* the titles are left out, and the end-of-period fees of the history are
\* those of report_history
get_patron_status_report(bks, recs, t, p, active, rows) ==
    LET loan(a, fee_info) ==
            [book_id |-> a.book_id, borrow_date |-> a.borrow_date,
             due_date |-> a.due_date,
             is_overdue |-> fee_info.days_overdue > 0,
             days_overdue |-> fee_info.days_overdue,
             current_fee |-> fee_info.fee_amount]
        current_loans ==
            [i \in DOMAIN active |->
                loan(active[i],
                     calculate_late_fee_for_book(
                         get_borrow_record(recs, p, active[i].book_id), t))]
        history ==
            [i \in DOMAIN rows |->
                [book_id |-> rows[i].book_id,
                 borrow_date |-> rows[i].borrow_date,
                 due_date |-> rows[i].due_date,
                 return_date |-> rows[i].return_date]]
    IN  IF ~valid_patron_id(p)
        THEN Report("InvalidPatron", <<>>, 0, <<>>, <<>>)
        ELSE Report("ok", current_loans, SumFees(current_loans), history,
                    <<"get_patron_borrowed_books">>
                      \o [i \in DOMAIN active |-> "get_borrow_record"]
                      \o <<"get_db_connection">>)

(***************************************************************************)
(* Catalogue search.  A title and an author are known by their lengths, so *)
(* which books hold the needle is an input; an ISBN is compared as it is.   *)
(* The result is known by the ids of the books it lists.                    *)
(***************************************************************************)
SearchTypes == {"title", "author", "isbn", "publisher"}
SearchTerms == {<<>>, IsbnA, ShortIsbn}

Found(hits, cs) == [hits |-> hits, calls |-> cs]

\* the search for the stripped term with the stripped, lower-case type, when
\* `matches` are the books whose title (author) holds the term and
\* has_source says whether a get_all_books could be imported
search_books_in_catalog(bks, term, stype, matches, has_source) ==
    LET out == {i \in DOMAIN bks : bks[i].isbn = term}
        listed == IF term = <<>> THEN DOMAIN bks ELSE matches
    IN  IF stype \notin {"title", "author", "isbn"} THEN Found({}, <<>>)
        ELSE IF stype \in {"title", "author"}
        THEN IF has_source THEN Found(listed, <<"get_all_books">>)
             ELSE Found(listed, <<"get_db_connection">>)
        ELSE IF has_source /\ out # {} THEN Found(out, <<"get_all_books">>)
        ELSE Found(out, (IF has_source THEN <<"get_all_books">> ELSE <<>>)
                          \o <<"get_db_connection">>)

(***************************************************************************)
(* borrow_book_by_patron one storage call at a time: what a call in flight *)
(* does with the tables at its next storage call, and where it goes on to. *)
(* Every storage write reports success here.                               *)
(***************************************************************************)
Stepped(bks, recs, c) == [books |-> bks, borrow_records |-> recs, caller |-> c]

Returned(c, code) == [c EXCEPT !.pc = "done", !.code = code]

\* mutant of borrow_decrement: the decrement is made only while a copy is
\* still available
borrow_decrement_while_available(bks, recs, c) ==
    IF bks[c.book_id.val].available_copies <= 0
    THEN Stepped(bks, recs, Returned(c, "BookUnavailable"))
    ELSE Stepped(update_book_availability(bks, c.book_id.val, -1), recs,
                 Returned(c, "Success"))

\* the decrement of the available copies, and the return of the call
borrow_decrement(bks, recs, c) ==
    Stepped(update_book_availability(bks, c.book_id.val, -1), recs,
            Returned(c, "Success"))

\* a call is made: the checks of the arguments
borrow_called(p, b) ==
    IF ~valid_patron_id(p) THEN Caller("done", p, b, "InvalidPatron")
    ELSE IF ~b.isInt THEN Caller("done", p, b, "InvalidBookId")
    ELSE Caller("get_book_by_id", p, b, "")

\* the next storage call of the call in flight c, at instant t
borrow_step(bks, recs, t, c) ==
    LET p == c.patron_id
        b == c.book_id
        book == get_book_by_id(bks, b.val)
        To(pc) == Stepped(bks, recs, [c EXCEPT !.pc = pc])
        Fail(code) == Stepped(bks, recs, Returned(c, code))
    IN  CASE c.pc = "get_book_by_id" ->
                IF book = <<>> THEN Fail("BookNotFound")
                ELSE IF book[1].available_copies <= 0
                     THEN Fail("BookUnavailable")
                ELSE To("get_patron_borrow_count")
          [] c.pc = "get_patron_borrow_count" ->
                IF LimitReached(get_patron_borrow_count(recs, p))
                THEN Fail("BorrowLimitExceeded")
                ELSE To("get_borrow_record")
          [] c.pc = "get_borrow_record" ->
                IF get_borrow_record(recs, p, b.val) # <<>>
                THEN Fail("DuplicateActiveLoan")
                ELSE To("insert_borrow_record")
          [] c.pc = "insert_borrow_record" ->
                Stepped(bks,
                        insert_borrow_record(recs, p, b.val, t, DueDate(t)),
                        [c EXCEPT !.pc = "update_book_availability"])
          [] c.pc = "update_book_availability" ->
                borrow_decrement(bks, recs, c)

(***************************************************************************)
(* The state machine.                                                      *)
(***************************************************************************)
Init ==
    /\ books = <<>>
    /\ borrow_records = EmptyBag
    /\ now = 0
    /\ callers = NoCallers

\* which storage writes report success: every write, or all but one, or
\* (borrow) neither the decrement nor the compensating close
AllOk == <<TRUE, TRUE, TRUE>>
BorrowStorage == {AllOk, <<FALSE, TRUE, TRUE>>, <<TRUE, FALSE, TRUE>>,
                  <<TRUE, FALSE, FALSE>>}
ReturnStorage == {AllOk, <<FALSE, TRUE, TRUE>>, <<TRUE, FALSE, TRUE>>}
AddStorage == {AllOk, <<FALSE, TRUE, TRUE>>}

DoAdd(r, st) ==
    add_book_to_catalog(books, r.title, r.author, r.isbn, r.total_copies,
                        st[1])

DoBorrow(p, b, st) ==
    borrow_book_by_patron(books, borrow_records, now, p, b,
                          st[1], st[2], st[3])

DoReturn(p, b, st) ==
    return_book_by_patron(books, borrow_records, now, p, b, st[1], st[2])

DoPay(p, b, gw) == pay_late_fees(books, borrow_records, now, p, b, gw)

\* the reports the patron can get, one for every order of the rows
Reports(p) ==
    {get_patron_status_report(books, borrow_records, now, p, active, rows) :
        active \in get_patron_borrowed_books(borrow_records, p),
        rows \in history_query(books, borrow_records, p)}

\* the storage outcomes worth telling apart: those of a request that gets as
\* far as its first write
Writes(o, storage) == IF o.result.code = "Success" THEN storage ELSE {AllOk}

AddBook ==
    \E r \in AddInputs :
        \E st \in Writes(DoAdd(r, AllOk), AddStorage) :
            LET o == DoAdd(r, st)
            IN  /\ books' = o.books
                /\ UNCHANGED <<borrow_records, now, callers>>

BorrowBook(patrons, cap, storage) ==
    \E p \in patrons, b \in BookIdInputs(Len(books)) :
        \E st \in Writes(DoBorrow(p, b, AllOk), storage) :
            LET o == DoBorrow(p, b, st)
            IN  /\ BagCardinality(o.borrow_records) <= cap
                /\ books' = o.books
                /\ borrow_records' = o.borrow_records
                /\ UNCHANGED <<now, callers>>

ReturnBook(patrons, storage) ==
    \E p \in patrons, b \in BookIdInputs(Len(books)) :
        \E st \in Writes(DoReturn(p, b, AllOk), storage) :
            LET o == DoReturn(p, b, st)
            IN  /\ books' = o.books
                /\ borrow_records' = o.borrow_records
                /\ UNCHANGED <<now, callers>>

Tick ==
    \E t \in Instants :
        /\ t > now
        /\ now' = t
        /\ UNCHANGED <<books, borrow_records, callers>>

\* pay, refund and report read the tables and leave them as they are
PayLateFees(patrons) ==
    \E p \in patrons, b \in BookIdInputs(Len(books)), gw \in GatewayReplies :
        /\ DoPay(p, b, gw).result.op = "pay"
        /\ UNCHANGED vars

RefundLateFeePayment ==
    \E txn \in TxnInputs, a \in AmountInputs, gw \in GatewayReplies :
        /\ refund_late_fee_payment(txn, a, gw).result.op = "refund"
        /\ UNCHANGED vars

PatronStatusReport(patrons) ==
    \E p \in patrons :
        /\ \E o \in Reports(p) : o.code \in {"ok", "InvalidPatron"}
        /\ UNCHANGED vars

\* the books that hold the term: none, or the book added last
SearchMatches == {{}, {i \in DOMAIN books : i = Len(books)}}

DoSearch(term, stype, matches, has_source) ==
    search_books_in_catalog(books, term, stype, matches, has_source)

SearchBooks ==
    \E term \in SearchTerms, stype \in SearchTypes,
       matches \in SearchMatches, has_source \in BOOLEAN :
        /\ DoSearch(term, stype, matches, has_source).hits \subseteq DOMAIN books
        /\ UNCHANGED vars

Borrow == BorrowBook(PatronInputs, MaxRecords, BorrowStorage)

Return == ReturnBook(PatronInputs, ReturnStorage)

Next == AddBook \/ Borrow \/ Return \/ Tick

Spec == Init /\ [][Next]_vars

(***************************************************************************)
(* Runs that reach the borrowing limit: the catalogue as left by           *)
(* BorrowLimit + 1 successful add_book_to_catalog calls, then borrows and   *)
(* returns whose storage writes all succeed.                               *)
(***************************************************************************)
LimitBooks == BorrowLimit + 1

IsbnDigit == <<"1", "2", "3", "4", "5", "6", "7", "8", "9">>

RECURSIVE Catalogue(_)
Catalogue(n) ==
    IF n = 0 THEN <<>>
    ELSE add_book_to_catalog(Catalogue(n - 1), MaxTitleLen, MaxAuthorLen,
                             IsbnOf(IsbnDigit[n]), IF n = 1 THEN 2 ELSE 1,
                             TRUE).books

LimitPatrons == {PatronA, <<"a", "b", "c", "d", "e", "f">>}

InitLimit ==
    /\ books = Catalogue(LimitBooks)
    /\ borrow_records = EmptyBag
    /\ now = 0
    /\ callers = NoCallers

BorrowLimitRun == BorrowBook(LimitPatrons, MaxLoanRecords, {AllOk})

ReturnLimitRun == ReturnBook(LimitPatrons, {AllOk})

NextLimit == BorrowLimitRun \/ ReturnLimitRun

SpecLimit == InitLimit /\ [][NextLimit]_vars

(***************************************************************************)
(* Runs that charge late fees: one book, one loan of it taken out in the   *)
(* first instants, a clock that advances tick by tick until the loan is    *)
(* MaxDaysOverdue days overdue, and payments and refunds at any instant.   *)
(***************************************************************************)
MaxClock == MaxBorrowInstant + (LoanDays + MaxDaysOverdue) * TicksPerDay + 1

FeePatrons == {PatronA, <<"1", "2", "3", "4", "5">>}

InitFee ==
    /\ books = Catalogue(1)
    /\ borrow_records = EmptyBag
    /\ now = 0
    /\ callers = NoCallers

BorrowFee ==
    /\ borrow_records = EmptyBag
    /\ now <= MaxBorrowInstant
    /\ BorrowBook(FeePatrons, 1, {AllOk})

ReturnFee == ReturnBook(FeePatrons, {AllOk})

TickFee ==
    /\ now < MaxClock
    /\ now' = now + 1
    /\ UNCHANGED <<books, borrow_records, callers>>

Pay == PayLateFees(FeePatrons)

Refund == RefundLateFeePayment

NextFee == BorrowFee \/ ReturnFee \/ TickFee \/ Pay \/ Refund

SpecFee == InitFee /\ [][NextFee]_vars

(***************************************************************************)
(* Runs that build a loan history: two books, two patrons, borrows and     *)
(* returns at three instants, and status reports at any instant.           *)
(***************************************************************************)
ReportInstants == {0, TicksPerDay, (LoanDays + 6) * TicksPerDay}

InitReport ==
    /\ books = Catalogue(2)
    /\ borrow_records = EmptyBag
    /\ now = 0
    /\ callers = NoCallers

BorrowReport == BorrowBook(ValidPatrons, MaxReportRecords, {AllOk})

ReturnReport == ReturnBook(ValidPatrons, {AllOk})

TickReport ==
    \E t \in ReportInstants :
        /\ t > now
        /\ now' = t
        /\ UNCHANGED <<books, borrow_records, callers>>

StatusReport == PatronStatusReport(PatronInputs)

NextReport ==
    BorrowReport \/ ReturnReport \/ TickReport \/ StatusReport \/ SearchBooks

SpecReport == InitReport /\ [][NextReport]_vars

(***************************************************************************)
(* Interleaved runs: NumCallers calls of borrow_book_by_patron are in      *)
(* flight at once and take turns at the granularity of storage calls; the  *)
(* catalogue holds a book with two copies and a book with one.             *)
(***************************************************************************)
RacePatrons == ValidPatrons \cup {<<>>}

InitRace ==
    /\ books = Catalogue(2)
    /\ borrow_records = EmptyBag
    /\ now = 0
    /\ callers = NoCallers

CallBorrow ==
    \E i \in DOMAIN callers, p \in RacePatrons, b \in BookIdInputs(Len(books)) :
        /\ callers[i].pc = "idle"
        /\ callers' = [callers EXCEPT ![i] = borrow_called(p, b)]
        /\ UNCHANGED <<books, borrow_records, now>>

StepBorrow ==
    \E i \in DOMAIN callers :
        /\ callers[i].pc \notin {"idle", "done"}
        /\ LET o == borrow_step(books, borrow_records, now, callers[i])
           IN  /\ books' = o.books
               /\ borrow_records' = o.borrow_records
               /\ callers' = [callers EXCEPT ![i] = o.caller]
        /\ UNCHANGED now

NextRace == CallBorrow \/ StepBorrow

SpecRace == InitRace /\ [][NextRace]_vars

(***************************************************************************)
(* Runs that fill the catalogue and lend from it: add-book, borrow and     *)
(* return with their storage failures, asked for by the two valid patrons  *)
(* and by a caller without a patron id.                                    *)
(***************************************************************************)
FramePatrons == ValidPatrons \cup {<<>>}

BorrowFrame == BorrowBook(FramePatrons, MaxRecords, BorrowStorage)

ReturnFrame == ReturnBook(FramePatrons, ReturnStorage)

NextFrame == AddBook \/ BorrowFrame \/ ReturnFrame \/ Tick

SpecFrame == Init /\ [][NextFrame]_vars

(***************************************************************************)
(* Properties.  A property of an operation is stated of the operation's   *)
(* outcome on every input, in every reachable state.                       *)
(***************************************************************************)
Range(f) == {f[i] : i \in DOMAIN f}

\* the number of rows of a bag that lie in the set S
RECURSIVE Rows(_, _)
Rows(recs, S) ==
    IF S = {} THEN 0
    ELSE LET r == CHOOSE x \in S : TRUE
         IN  CopiesIn(r, recs) + Rows(recs, S \ {r})

\* the active loans of patron p of book i, and of patron p
Loans(recs, p, i) ==
    Rows(recs, {r \in BagToSet(recs) :
                   r.patron_id = p /\ r.book_id = i /\ r.return_date = NULL})

LoansOf(recs, p) ==
    Rows(recs, {r \in BagToSet(recs) :
                   r.patron_id = p /\ r.return_date = NULL})

BookIds == {IntId(i) : i \in DOMAIN books}
AnyBookId == BookIdInputs(Len(books))
OneBag(r) == SetToBag({r})
SameState(o) == o.books = books /\ o.borrow_records = borrow_records
OtherBooksSame(o, i) ==
    /\ DOMAIN o.books = DOMAIN books
    /\ \A j \in DOMAIN books \ {i} : o.books[j] = books[j]

\* C1: every book has 0 <= available_copies <= total_copies, in every state
\* reached by add-book, borrow and return steps, storage failures included.
C1_AvailableWithinTotal ==
    \A i \in DOMAIN books :
        /\ books[i].available_copies >= 0
        /\ books[i].available_copies <= books[i].total_copies

C2_AtMostOneActive ==
    \A r \in BagToSet(borrow_records) :
        Loans(borrow_records, r.patron_id, r.book_id) <= 1

\* C2 (as amended): there is at most one active record per (patron, book),
\* and a borrow by a patron who holds an active loan of the book fails and
\* changes nothing; it fails with DuplicateActiveLoan when the book has an
\* available copy and the patron has fewer than 5 active loans, and with the
\* earlier BookUnavailable or BorrowLimitExceeded otherwise.
C2_OneActiveLoanPerPair ==
    /\ C2_AtMostOneActive
    /\ \A p \in PatronInputs, b \in BookIds, st \in BorrowStorage :
          Loans(borrow_records, p, b.val) >= 1 =>
            LET o == DoBorrow(p, b, st)
            IN  /\ SameState(o)
                /\ o.result.code =
                     IF books[b.val].available_copies <= 0
                     THEN "BookUnavailable"
                     ELSE IF LoansOf(borrow_records, p) >= 5
                     THEN "BorrowLimitExceeded"
                     ELSE "DuplicateActiveLoan"

\* C2 (as claimed): ... and every borrow by a patron who holds an active
\* loan of the book fails with DuplicateActiveLoan.
C2_DuplicateAlwaysReported ==
    /\ C2_AtMostOneActive
    /\ \A p \in PatronInputs, b \in BookIds, st \in BorrowStorage :
          Loans(borrow_records, p, b.val) >= 1 =>
            DoBorrow(p, b, st).result.code = "DuplicateActiveLoan"

C2_HoldsAvailableBook ==
    \E p \in ValidPatrons, b \in BookIds :
        /\ Loans(borrow_records, p, b.val) = 1
        /\ books[b.val].available_copies > 0
        /\ DoBorrow(p, b, AllOk).result.code = "DuplicateActiveLoan"

C3_AtMostFive ==
    \A r \in BagToSet(borrow_records) :
        LoansOf(borrow_records, r.patron_id) <= 5

\* C3 (as amended): no patron ever has more than 5 active loans, and a
\* borrow by a patron with exactly 5 active loans fails and changes nothing;
\* it fails with BorrowLimitExceeded when the book exists and has an
\* available copy (the boundary is at 5, not 6), and with the earlier
\* BookNotFound or BookUnavailable otherwise.
C3_LimitAtFive ==
    /\ C3_AtMostFive
    /\ \A p \in ValidPatrons, b \in AnyBookId \ {NotAnInt},
          st \in BorrowStorage :
          LoansOf(borrow_records, p) = 5 =>
            LET o == DoBorrow(p, b, st)
            IN  /\ SameState(o)
                /\ o.result.code =
                     IF b \notin BookIds THEN "BookNotFound"
                     ELSE IF books[b.val].available_copies <= 0
                     THEN "BookUnavailable"
                     ELSE "BorrowLimitExceeded"

\* C3 (as claimed): ... and every borrow (of a book of the catalogue) by a
\* patron with exactly 5 active loans fails with BorrowLimitExceeded.
C3_LimitAlwaysReported ==
    /\ C3_AtMostFive
    /\ \A p \in ValidPatrons, b \in BookIds, st \in BorrowStorage :
          LoansOf(borrow_records, p) = 5 =>
            DoBorrow(p, b, st).result.code = "BorrowLimitExceeded"

C3_FiveLoansAndAFreeBook ==
    /\ LoansOf(borrow_records, PatronA) = 5
    /\ \E b \in BookIds :
          /\ books[b.val].available_copies > 0
          /\ DoBorrow(PatronA, b, AllOk).result.code = "BorrowLimitExceeded"

\* C4: a borrow that returns success leaves the book with one available
\* copy less and nothing else of it changed, adds the one active record of
\* (patron, book), dated now and due 14 days later, and changes no other
\* book and no other record.
C4_BorrowSuccessEffect ==
    \A p \in PatronInputs, b \in AnyBookId, st \in BorrowStorage :
        LET o == DoBorrow(p, b, st)
            loan == [patron_id |-> p, book_id |-> b.val, borrow_date |-> now,
                     due_date |-> now + 14 * TicksPerDay, return_date |-> NULL]
        IN  o.result.code = "Success" =>
              /\ b \in BookIds
              /\ o.books[b.val] =
                   [books[b.val] EXCEPT !.available_copies = @ - 1]
              /\ OtherBooksSame(o, b.val)
              /\ o.borrow_records = borrow_records (+) OneBag(loan)
              /\ Loans(o.borrow_records, p, b.val) = 1
              /\ o.result.due_date = loan.due_date

\* a borrow has just succeeded, at a later instant, beside an older record
C4_JustBorrowed ==
    \E r \in BagToSet(borrow_records) :
        /\ now > 0
        /\ r.return_date = NULL /\ r.borrow_date = now
        /\ r.due_date = now + 14 * TicksPerDay
        /\ books[r.book_id].available_copies < books[r.book_id].total_copies
        /\ \E q \in BagToSet(borrow_records) : q.borrow_date < now

\* C5: a return that returns success leaves the book with one available
\* copy more and nothing else of it changed, closes the active record of
\* (patron, book) so that none remains, and changes no other book and no
\* other record.
C5_ReturnSuccessEffect ==
    \A p \in PatronInputs, b \in AnyBookId, st \in ReturnStorage :
        LET o == DoReturn(p, b, st)
        IN  o.result.code = "Success" =>
              /\ b \in BookIds
              /\ o.books[b.val] =
                   [books[b.val] EXCEPT !.available_copies = @ + 1]
              /\ OtherBooksSame(o, b.val)
              /\ Loans(o.borrow_records, p, b.val) = 0
              /\ \E a \in BagToSet(borrow_records) :
                    /\ a.patron_id = p /\ a.book_id = b.val
                    /\ a.return_date = NULL
                    /\ o.borrow_records =
                         (borrow_records (-) OneBag(a))
                           (+) OneBag([a EXCEPT !.return_date = now])

\* a return has just closed one loan of a book another patron still holds
C5_JustReturned ==
    \E r \in BagToSet(borrow_records), q \in BagToSet(borrow_records) :
        /\ r.return_date = now /\ r.borrow_date < now
        /\ q.book_id = r.book_id /\ q.patron_id # r.patron_id
        /\ q.return_date = NULL
        /\ Loans(borrow_records, r.patron_id, r.book_id) = 0

\* C6: a borrow reports the first failing check in the order InvalidPatron,
\* BookNotFound, BookUnavailable, BorrowLimitExceeded, DuplicateActiveLoan;
\* so a borrow (by a valid patron id) of a book with no available copy
\* reports BookUnavailable whatever the patron's loans.
C6_FirstFailingCheck ==
    \A p \in PatronInputs, b \in AnyBookId \ {NotAnInt},
       st \in BorrowStorage :
        LET code == DoBorrow(p, b, st).result.code
        IN  IF p \notin ValidPatrons THEN code = "InvalidPatron"
            ELSE IF b \notin BookIds THEN code = "BookNotFound"
            ELSE IF books[b.val].available_copies = 0
                 THEN code = "BookUnavailable"
            ELSE IF LoansOf(borrow_records, p) >= 5
                 THEN code = "BorrowLimitExceeded"
            ELSE IF Loans(borrow_records, p, b.val) >= 1
                 THEN code = "DuplicateActiveLoan"
            ELSE code \in {"Success", "StorageFailure"}

\* a patron at the limit asks again for a book of theirs that has no copy left
C6_UnavailableAtLimit ==
    /\ LoansOf(borrow_records, PatronA) = 5
    /\ \E b \in BookIds :
          /\ books[b.val].available_copies = 0
          /\ Loans(borrow_records, PatronA, b.val) = 1
          /\ DoBorrow(PatronA, b, AllOk).result.code = "BookUnavailable"

ValidationErrors ==
    {"InvalidPatron", "InvalidBookId", "BookNotFound", "BookUnavailable",
     "BorrowLimitExceeded", "DuplicateActiveLoan"}

\* C7: a borrow that fails at a check, or because the insert of the record
\* reports failure, leaves books and records as they were; after the failed
\* insert the decrement is not attempted.
C7_FailedBorrowNoEffect ==
    \A p \in PatronInputs, b \in AnyBookId, st \in BorrowStorage :
        LET o == DoBorrow(p, b, st)
        IN  /\ o.result.code \in ValidationErrors => SameState(o)
            /\ ~st[1] =>
                  \/ o.result.code \in ValidationErrors
                  \/ /\ o.result.code = "StorageFailure"
                     /\ SameState(o)
                     /\ o.calls[Len(o.calls)] = "insert_borrow_record"
                     /\ "update_book_availability" \notin Range(o.calls)

\* the insert of a borrow that passed its checks can fail, beside older rows
C7_InsertCanFail ==
    /\ borrow_records # EmptyBag
    /\ \E p \in ValidPatrons, b \in BookIds :
          /\ DoBorrow(p, b, AllOk).result.code = "Success"
          /\ DoBorrow(p, b, <<FALSE, TRUE, TRUE>>).result.code
               = "StorageFailure"
    /\ \E p \in ValidPatrons, b \in BookIds :
          DoBorrow(p, b, AllOk).result.code = "DuplicateActiveLoan"

\* C8: a borrow whose record was created and whose decrement reports failure
\* reports StorageFailure and leaves no active record of (patron, book) and
\* the book's available_copies as before.
C8_FailedDecrementCompensated ==
    \A p \in PatronInputs, b \in AnyBookId, st \in BorrowStorage :
        LET o == DoBorrow(p, b, st)
            passes == DoBorrow(p, b, AllOk).result.code = "Success"
        IN  (passes /\ st[1] /\ ~st[2]) =>
              /\ o.result.code = "StorageFailure"
              /\ Loans(o.borrow_records, p, b.val) = 0
              /\ o.books = books

\* C9: a return whose return-date update reports failure reports
\* StorageFailure, does not attempt the increment and leaves the books and
\* the still active record as they were.
C9_FailedReturnDateNoEffect ==
    \A p \in PatronInputs, b \in AnyBookId, st \in ReturnStorage :
        LET o == DoReturn(p, b, st)
            passes == DoReturn(p, b, AllOk).result.code = "Success"
        IN  (passes /\ ~st[1]) =>
              /\ o.result.code = "StorageFailure"
              /\ "update_book_availability" \notin Range(o.calls)
              /\ SameState(o)
              /\ Loans(o.borrow_records, p, b.val) = 1

\* the return-date update of a return of an active loan can fail
C9_ReturnDateCanFail ==
    \E p \in ValidPatrons, b \in BookIds :
        /\ Loans(borrow_records, p, b.val) = 1
        /\ books[b.val].available_copies < books[b.val].total_copies
        /\ DoReturn(p, b, <<FALSE, TRUE, TRUE>>).result.code
             = "StorageFailure"

\* C10: a return by a patron of a book of which the patron has no active
\* record fails with NoActiveLoan and changes nothing; a second return right
\* after a successful one does so, and increments nothing.
C10_NoActiveLoanNoEffect ==
    \A p \in ValidPatrons, b \in BookIds, st \in ReturnStorage :
        LET o == DoReturn(p, b, st)
            first == DoReturn(p, b, AllOk)
            second == return_book_by_patron(first.books, first.borrow_records,
                                            now, p, b, st[1], st[2])
        IN  /\ Loans(borrow_records, p, b.val) = 0 =>
                  o.result.code = "NoActiveLoan" /\ SameState(o)
            /\ first.result.code = "Success" =>
                  /\ second.result.code = "NoActiveLoan"
                  /\ second.books = first.books
                  /\ second.borrow_records = first.borrow_records

\* a patron has returned a book and asks to return it again, and another
\* patron never borrowed it
C10_AlreadyReturned ==
    \E p \in ValidPatrons, q \in ValidPatrons, b \in BookIds :
        /\ \E r \in BagToSet(borrow_records) :
              r.patron_id = p /\ r.book_id = b.val /\ r.return_date # NULL
        /\ Loans(borrow_records, p, b.val) = 0
        /\ DoReturn(p, b, AllOk).result.code = "NoActiveLoan"
        /\ \A r \in BagToSet(borrow_records) : r.patron_id # q
        /\ DoReturn(q, b, AllOk).result.code = "NoActiveLoan"

\* the fee quote of patron p for book b now, as return and pay compute it
Quote(p, b) ==
    calculate_late_fee_for_book(get_borrow_record(borrow_records, p, b.val),
                                now)

\* 0.50 a day for the first 7 days, 1.00 a day after, at most 15.00, in cents
ClaimedFee(d) ==
    IF d <= 7 THEN d * 50
    ELSE IF 350 + (d - 7) * 100 <= 1500 THEN 350 + (d - 7) * 100
    ELSE 1500

ActiveRows == {r \in BagToSet(borrow_records) : r.return_date = NULL}

\* C11: for every number d >= 0 of whole days overdue the late fee is 0.50 a
\* day for the first 7 days plus 1.00 a day after, capped at 15.00 (10 days
\* give 6.50, 40 days give 15.00); the fee quoted for a loan and the fee a
\* return reports are that fee of the loan's days overdue.
C11_TieredLateFee ==
    /\ \A d \in 0..MaxDaysOverdue : TieredFee(d) = ClaimedFee(d)
    /\ TieredFee(10) = 650 /\ TieredFee(40) = 1500
    /\ \A r \in ActiveRows :
          LET q == Quote(r.patron_id, IntId(r.book_id))
              o == DoReturn(r.patron_id, IntId(r.book_id), AllOk)
          IN  /\ q.fee_amount = ClaimedFee(q.days_overdue)
              /\ o.result.fee_amount = q.fee_amount
              /\ o.result.days_overdue = q.days_overdue

\* a loan is 10 days overdue and its return reports 6.50
C11_TenDaysOverdue ==
    \E r \in ActiveRows :
        /\ now = r.due_date + 10 * TicksPerDay
        /\ DoReturn(r.patron_id, IntId(r.book_id), AllOk).result.fee_amount
             = 650

\* C12: days_overdue is the number of complete days from the due date to
\* the evaluation instant, 0 when the instant is before the due date or less
\* than a full day after it (and the fee is 0 then), and d when it is d full
\* days and a fraction of a day after it.
C12_WholeDaysOverdue ==
    \A r \in ActiveRows :
        LET q == Quote(r.patron_id, IntId(r.book_id))
            d == q.days_overdue
        IN  IF now < r.due_date + TicksPerDay
            THEN d = 0 /\ q.fee_amount = 0
            ELSE /\ d >= 1
                 /\ r.due_date + d * TicksPerDay <= now
                 /\ now < r.due_date + (d + 1) * TicksPerDay

\* a loan is quoted 3 days and a fraction of a day after its due date
C12_ThreeDaysAndAHalf ==
    \E r \in ActiveRows :
        /\ now = r.due_date + 3 * TicksPerDay + 1
        /\ Quote(r.patron_id, IntId(r.book_id)).days_overdue = 3

\* C13: a loan created by a successful borrow at instant t is due at
\* t + 14 days, and its return at any instant from t to t + 14 days, the
\* instant of the borrow included, succeeds (when the storage writes do) and
\* reports fee_amount 0 and days_overdue 0.
C13_OnTimeReturnIsFree ==
    /\ \A r \in ActiveRows :
          LET o == DoReturn(r.patron_id, IntId(r.book_id), AllOk)
          IN  /\ r.borrow_date <= now
              /\ r.due_date = r.borrow_date + 14 * TicksPerDay
              /\ now <= r.borrow_date + 14 * TicksPerDay =>
                    /\ o.result.code = "Success"
                    /\ o.result.fee_amount = 0
                    /\ o.result.days_overdue = 0
    /\ \A p \in FeePatrons, b \in AnyBookId :
          LET o == DoBorrow(p, b, AllOk)
              back == return_book_by_patron(o.books, o.borrow_records, now,
                                            p, b, TRUE, TRUE)
          IN  o.result.code = "Success" =>
                /\ back.result.code = "Success"
                /\ back.result.fee_amount = 0
                /\ back.result.days_overdue = 0

\* a loan is returned at the very instant it is due
C13_ReturnedWhenDue ==
    \E r \in ActiveRows :
        /\ r.borrow_date > 0
        /\ now = r.borrow_date + 14 * TicksPerDay
        /\ DoReturn(r.patron_id, IntId(r.book_id), AllOk).result.code
             = "Success"

GatewayCalls(o) == {i \in DOMAIN o.calls :
                       o.calls[i] \in {"process_payment", "refund_payment"}}

\* C14: pay_late_fees does not invoke the gateway when the computed fee is
\* <= 0: it returns NoFeeDue (InvalidPatron when the patron id is malformed
\* and no fee is computed) with no transaction id.
C14_NoFeeNoGatewayCall ==
    \A p \in FeePatrons, b \in AnyBookId, gw \in GatewayReplies :
        LET o == DoPay(p, b, gw)
        IN  Quote(p, b).fee_amount <= 0 =>
              /\ o.result.code =
                   IF valid_patron_id(p) THEN "NoFeeDue" ELSE "InvalidPatron"
              /\ o.result.transaction_id = NoTxn
              /\ GatewayCalls(o) = {}
              /\ o.sent = <<>>

\* the patron holds a loan that is due this instant, and has nothing to pay
C14_NothingToPayYet ==
    \E r \in ActiveRows, gw \in GatewayReplies :
        /\ now = r.due_date
        /\ gw.success
        /\ DoPay(r.patron_id, IntId(r.book_id), gw).result.code = "NoFeeDue"

\* the amounts of a refund: those of AmountInputs and the fees quoted now
RefundAmounts ==
    AmountInputs \cup
    {Amount(Quote(p, b).fee_amount) : p \in FeePatrons, b \in BookIds}

\* 0 < amount <= 15.00
AmountInRange(a) == ~a.nan /\ 0 < a.cents /\ a.cents <= 1500

\* C15: refund_late_fee_payment invokes gateway.refundPayment if and only if
\* the transaction id is non-empty and prefixed txn_ and 0 < amount <= 15.00
\* (15.00 is accepted); every other input is rejected with
\* InvalidTransactionId, InvalidAmount or AmountExceedsMax and the gateway is
\* not invoked.
C15_RefundGuard ==
    \A txn \in TxnInputs, a \in RefundAmounts, gw \in GatewayReplies :
        LET o == refund_late_fee_payment(txn, a, gw)
            accepted == /\ txn # <<>>
                        /\ Len(txn) >= 4
                        /\ <<txn[1], txn[2], txn[3], txn[4]>>
                             = <<"t", "x", "n", "_">>
                        /\ AmountInRange(a)
        IN  /\ Cardinality(GatewayCalls(o)) = (IF accepted THEN 1 ELSE 0)
            /\ accepted =>
                  o.sent = <<[transaction_id |-> txn, amount |-> a]>>
            /\ ~accepted =>
                  /\ o.sent = <<>>
                  /\ o.result.code \in {"InvalidTransactionId",
                                        "InvalidAmount", "AmountExceedsMax"}
            /\ (a = Amount(1500) /\ txn = TxnPrefix) => accepted

\* C16: a fault raised by the gateway during pay_late_fees or
\* refund_late_fee_payment is caught: a call in which the gateway raises
\* ends with the one result PaymentError, or RefundError, that carries the
\* message of the fault, and every call ends with one of the results of the
\* operation.
C16_GatewayFaultCaught ==
    /\ \A p \in FeePatrons, b \in AnyBookId, gw \in GatewayReplies :
          LET o == DoPay(p, b, gw)
          IN  /\ o.result.code \in
                   {"InvalidPatron", "FeeUnavailable", "NoFeeDue",
                    "BookNotFound", "Success", "PaymentDeclined",
                    "PaymentError"}
              /\ (gw.raises /\ GatewayCalls(o) # {}) =>
                    /\ o.result.code = "PaymentError"
                    /\ o.result.message = gw.message
                    /\ o.result.transaction_id = NoTxn
              /\ o.result.code = "PaymentError" => gw.raises
    /\ \A txn \in TxnInputs, a \in RefundAmounts, gw \in GatewayReplies :
          LET o == refund_late_fee_payment(txn, a, gw)
          IN  /\ o.result.code \in
                   {"InvalidTransactionId", "InvalidAmount",
                    "AmountExceedsMax", "Success", "RefundDeclined",
                    "RefundError"}
              /\ (gw.raises /\ GatewayCalls(o) # {}) =>
                    /\ o.result.code = "RefundError"
                    /\ o.result.message = gw.message
              /\ o.result.code = "RefundError" => gw.raises

\* the gateway raises while an overdue loan is being paid
C16_FaultWhilePaying ==
    \E r \in ActiveRows, gw \in GatewayReplies :
        /\ gw.raises
        /\ Quote(r.patron_id, IntId(r.book_id)).fee_amount > 0
        /\ DoPay(r.patron_id, IntId(r.book_id), gw).result.code
             = "PaymentError"

\* C17: when the patron id is valid, the fee quote is > 0 and the book
\* exists, pay_late_fees invokes gateway.processPayment exactly once, with
\* the patron id and the amount of the fee quote; it returns success, with
\* the gateway's transaction id, iff the gateway reports success, and on a
\* failure the gateway reports it returns PaymentDeclined with the gateway's
\* message and no transaction id.
C17_PaymentThroughGateway ==
    \A p \in FeePatrons, b \in AnyBookId, gw \in GatewayReplies :
        LET o == DoPay(p, b, gw)
            fee == Quote(p, b).fee_amount
        IN  (valid_patron_id(p) /\ fee > 0 /\ b \in BookIds) =>
              /\ Cardinality(GatewayCalls(o)) = 1
              /\ o.sent = <<[patron_id |-> p, amount |-> fee]>>
              /\ o.result.code = "Success" <=> (gw.success /\ ~gw.raises)
              /\ o.result.code = "Success" =>
                    o.result.transaction_id = gw.transaction_id
              /\ (~gw.success /\ ~gw.raises) =>
                    /\ o.result.code = "PaymentDeclined"
                    /\ o.result.message = gw.message
                    /\ o.result.transaction_id = NoTxn

\* the gateway declines the payment of a fee at the cap, and names a
\* transaction
C17_DeclinedAtTheCap ==
    \E r \in ActiveRows, gw \in GatewayReplies :
        /\ ~gw.success /\ ~gw.raises /\ gw.transaction_id # NoTxn
        /\ Quote(r.patron_id, IntId(r.book_id)).fee_amount = 1500
        /\ DoPay(r.patron_id, IntId(r.book_id), gw).result.code
             = "PaymentDeclined"

\* C18: in add book, borrow, return, patron status, pay and refund, a
\* malformed identifier (patron id, book id, isbn, transaction id) is
\* answered with the validation error of the operation before any storage
\* read, storage write or gateway call.
C18_ValidatedBeforeAccess ==
    /\ \A r \in AddInputs :
          LET o == DoAdd(r, AllOk)
          IN  ~valid_isbn(r.isbn) =>
                /\ o.result.code \in
                     {"InvalidTitle", "InvalidAuthor", "InvalidIsbn"}
                /\ o.calls = <<>>
                /\ o.books = books
    /\ \A p \in PatronInputs, b \in AnyBookId :
          LET malformed == ~valid_patron_id(p) \/ ~b.isInt
              codes == {"InvalidPatron", "InvalidBookId"}
              borrowed == DoBorrow(p, b, AllOk)
              returned == DoReturn(p, b, AllOk)
          IN  malformed =>
                /\ borrowed.result.code \in codes
                /\ borrowed.calls = <<>> /\ SameState(borrowed)
                /\ returned.result.code \in codes
                /\ returned.calls = <<>> /\ SameState(returned)
                /\ \A gw \in GatewayReplies :
                      LET paid == DoPay(p, b, gw)
                      IN  paid.result.code \in codes /\ paid.calls = <<>>
    /\ \A p \in PatronInputs : \A o \in Reports(p) :
          ~valid_patron_id(p) => o.code = "InvalidPatron" /\ o.calls = <<>>
    /\ \A txn \in TxnInputs, a \in RefundAmounts, gw \in GatewayReplies :
          LET o == refund_late_fee_payment(txn, a, gw)
          IN  ~startswith(txn, TxnPrefix) =>
                o.result.code = "InvalidTransactionId" /\ o.calls = <<>>

RowsOf(p) == {r \in BagToSet(borrow_records) : r.patron_id = p}

\* the fees, quoted now, of the rows of the set S
RECURSIVE FeesNow(_)
FeesNow(S) ==
    IF S = {} THEN 0
    ELSE LET r == CHOOSE x \in S : TRUE
         IN  CopiesIn(r, borrow_records)
               * ClaimedFee(IF now >= r.due_date
                            THEN (now - r.due_date) \div TicksPerDay ELSE 0)
             + FeesNow(S \ {r})

\* C19: for a valid patron id the report's current loan count is the number
\* of the patron's active records, and total_late_fees is the sum, over
\* those active loans only, of the fee of each loan quoted at the instant of
\* the report.
C19_ReportTotals ==
    \A p \in ValidPatrons : \A o \in Reports(p) :
        /\ o.code = "ok"
        /\ o.current_count = LoansOf(borrow_records, p)
        /\ Len(o.current_loans) = o.current_count
        /\ o.total_late_fees = FeesNow(RowsOf(p) \cap ActiveRows)

\* a patron owes two different fees on two loans and has returned a third
\* loan that is past its due date by now
C19_TwoFeesAndAReturn ==
    \E p \in ValidPatrons, a \in ActiveRows, b \in ActiveRows,
       c \in BagToSet(borrow_records) :
        /\ a.patron_id = p /\ b.patron_id = p /\ c.patron_id = p
        /\ c.return_date # NULL
        /\ FeesNow({c}) > 0
        /\ FeesNow({a}) > FeesNow({b}) /\ FeesNow({b}) > 0
        /\ \E o \in Reports(p) :
              o.total_late_fees = FeesNow({a}) + FeesNow({b})

Entry(r) ==
    [book_id |-> r.book_id, borrow_date |-> r.borrow_date,
     due_date |-> r.due_date, return_date |-> r.return_date]

\* C20: the history of the report of a patron lists every record of the
\* patron, active or returned, as often as the table holds it and nothing
\* else, latest borrow_date first.
C20_HistoryComplete ==
    \A p \in ValidPatrons : \A o \in Reports(p) :
        LET h == o.history
        IN  /\ Len(h) = Rows(borrow_records, RowsOf(p))
            /\ \A r \in RowsOf(p) :
                  Cardinality({i \in DOMAIN h : h[i] = Entry(r)})
                    = CopiesIn(r, borrow_records)
            /\ \A i \in DOMAIN h : \E r \in RowsOf(p) : h[i] = Entry(r)
            /\ \A i \in DOMAIN h, j \in DOMAIN h :
                  i < j => h[i].borrow_date >= h[j].borrow_date

\* a patron has a returned and a later active loan, and the other patron a
\* loan as well
C20_TwoLoansAndAnothers ==
    \E p \in ValidPatrons, q \in ValidPatrons :
        /\ p # q /\ RowsOf(q) # {}
        /\ \E a \in RowsOf(p), b \in RowsOf(p) :
              /\ a.return_date # NULL /\ b.return_date = NULL
              /\ a.borrow_date < b.borrow_date
              /\ \E o \in Reports(p) :
                    /\ Len(o.history) = 2
                    /\ o.history[1] = Entry(b) /\ o.history[2] = Entry(a)

\* C21: the end-of-period fee and overdue days of the history entry of a
\* returned record are those of the fee formula from the record's due_date
\* to its return_date, the fee and days its return reported, whatever the
\* instant of the report; those of a still active record are evaluated at
\* the instant of the report.
C21_HistoryFeeSnapshot ==
    \A p \in ValidPatrons, as_text \in DatesAsText :
        \A rows \in history_query(books, borrow_records, p) :
            LET h == report_history(rows, now, as_text)
                end(r) == IF r.return_date # NULL THEN r.return_date ELSE now
                days(r) == IF end(r) >= r.due_date
                           THEN (end(r) - r.due_date) \div TicksPerDay ELSE 0
            IN  \A i \in DOMAIN rows :
                    /\ h[i].return_date = rows[i].return_date
                    /\ h[i].days_overdue_at_end = days(rows[i])
                    /\ h[i].late_fee_at_end = ClaimedFee(days(rows[i]))

\* a record but for its return_date
Key(r) ==
    [patron_id |-> r.patron_id, book_id |-> r.book_id,
     borrow_date |-> r.borrow_date, due_date |-> r.due_date]

\* the number of rows of the bag with the key k
Keyed(recs, k) == Rows(recs, {r \in BagToSet(recs) : Key(r) = k})

\* C22: records are created only by borrow, never deleted, and changed only
\* in that their return_date is set: in every step the rows of every key
\* (a record but for its return_date) stay or grow in number, a row that
\* appears is a loan taken out now and due in 14 days, a row with its
\* return_date set stays as it is, and a row that gets its return_date gets
\* the instant of the step.
C22_RecordsOnlyGrow ==
    [][
       /\ \A r \in BagToSet(borrow_records) :
             /\ Keyed(borrow_records', Key(r)) >= Keyed(borrow_records, Key(r))
             /\ r.return_date # NULL =>
                   CopiesIn(r, borrow_records') >= CopiesIn(r, borrow_records)
       /\ \A q \in BagToSet(borrow_records') :
             /\ Keyed(borrow_records', Key(q)) > Keyed(borrow_records, Key(q))
                   => /\ q.borrow_date = now
                      /\ q.due_date = now + 14 * TicksPerDay
             /\ (/\ q.return_date # NULL
                 /\ CopiesIn(q, borrow_records') > CopiesIn(q, borrow_records))
                   => q.return_date = now
       /\ BagCardinality(borrow_records') >= BagCardinality(borrow_records)
      ]_vars

\* a patron has returned a book and later borrowed it again: the returned
\* record stays beside the new one
C22_BorrowedAgain ==
    \E r \in BagToSet(borrow_records), q \in BagToSet(borrow_records) :
        /\ r.patron_id = q.patron_id /\ r.book_id = q.book_id
        /\ r.return_date # NULL /\ q.return_date = NULL
        /\ q.borrow_date > r.return_date

\* the storage calls that write, and where a trace of calls holds one
StorageWrites == {"insert_book", "insert_borrow_record",
                  "update_book_availability",
                  "update_borrow_record_return_date"}
WriteCalls(cs) == {i \in DOMAIN cs : cs[i] \in StorageWrites}

\* the refunds the frame is checked for: a well-formed and a missing
\* transaction id, with an amount in range, of zero and over the cap
FrameTxns == {<<>>, <<"t", "x", "n", "_", "1">>}
FrameAmounts == {Amount(0), Amount(FirstTierRate), Amount(FeeCap + 1)}

\* the books bks are the books of this state but for delta more available
\* copies of book b
MovedBy(bks, b, delta) ==
    /\ DOMAIN bks = DOMAIN books
    /\ \A i \in DOMAIN books :
          bks[i] = [books[i] EXCEPT !.available_copies =
                                      @ + (IF b = IntId(i) THEN delta ELSE 0)]

\* C23: a book's available_copies is changed only by a borrow, by -1, and by
\* a return, by +1, and its total_copies by nothing: a successful borrow or
\* return moves the count of its book by one and leaves the other fields and
\* the other books alone, a failed one and an add leave every existing book
\* as it is, and fee calculation, pay, refund, status report and search make
\* no storage call that writes.
C23_OnlyBorrowAndReturnMove ==
    /\ \A p \in FramePatrons, b \in AnyBookId, st \in BorrowStorage :
          LET o == DoBorrow(p, b, st)
          IN  MovedBy(o.books, b, IF o.result.code = "Success" THEN -1 ELSE 0)
    /\ \A p \in FramePatrons, b \in AnyBookId, st \in ReturnStorage :
          LET o == DoReturn(p, b, st)
          IN  MovedBy(o.books, b, IF o.result.code = "Success" THEN 1 ELSE 0)
    /\ \A r \in AddInputs, st \in AddStorage :
          \A i \in DOMAIN books : DoAdd(r, st).books[i] = books[i]
    /\ \A p \in FramePatrons, b \in AnyBookId, gw \in GatewayReplies :
          WriteCalls(DoPay(p, b, gw).calls) = {}
    /\ \A p \in FramePatrons : \A o \in Reports(p) : WriteCalls(o.calls) = {}
    /\ \A txn \in FrameTxns, a \in FrameAmounts, gw \in GatewayReplies :
          WriteCalls(refund_late_fee_payment(txn, a, gw).calls) = {}
    /\ \A term \in SearchTerms, stype \in SearchTypes,
          matches \in SearchMatches, has_source \in BOOLEAN :
          WriteCalls(DoSearch(term, stype, matches, has_source).calls) = {}

\* an overdue loan that can be returned and paid for, beside a copy that can
\* be borrowed, in a catalogue that a search by ISBN finds a book in
C23_EveryOperationAtWork ==
    /\ \E p \in FramePatrons, b \in AnyBookId :
          /\ DoReturn(p, b, AllOk).result.code = "Success"
          /\ DoReturn(p, b, AllOk).result.fee_amount > 0
          /\ \E gw \in GatewayReplies : DoPay(p, b, gw).result.code = "Success"
          /\ \E o \in Reports(p) : o.total_late_fees > 0
    /\ \E q \in FramePatrons, c \in AnyBookId :
          DoBorrow(q, c, AllOk).result.code = "Success"
    /\ DoSearch(IsbnA, "isbn", {}, TRUE).hits # {}
    /\ \E r \in AddInputs : DoAdd(r, AllOk).result.code = "Success"

\* C24: a successful add_book_to_catalog creates exactly one book, whose
\* available_copies equals its total_copies, the requested positive count;
\* an add that is rejected (title, author, ISBN, copy count, duplicate ISBN)
\* or whose insert fails creates no book.
C24_AddCreatesOneBook ==
    \A r \in AddInputs, st \in AddStorage :
        LET o == DoAdd(r, st)
            n == Len(books)
        IN  IF o.result.code = "Success"
            THEN /\ Len(o.books) = n + 1
                 /\ SubSeq(o.books, 1, n) = books
                 /\ o.books[n + 1].isbn = r.isbn
                 /\ o.books[n + 1].total_copies = r.total_copies
                 /\ o.books[n + 1].available_copies = r.total_copies
                 /\ r.total_copies > 0
            ELSE o.books = books

\* a catalogue with a book in it takes a second book with two copies, and
\* turns down a request for no copies
C24_SecondBookAdded ==
    /\ Len(books) = 1
    /\ \E r \in AddInputs :
          /\ r.total_copies = 2
          /\ DoAdd(r, AllOk).result.code = "Success"
    /\ \E r \in AddInputs : DoAdd(r, AllOk).result.code = "InvalidCopies"

\* C25: no two books of the catalogue share an ISBN, in every state reached
\* by add-book, borrow and return steps: an add whose ISBN belongs to a book
\* is rejected and leaves the catalogue as it is.
C25_IsbnUnique ==
    /\ \A i \in DOMAIN books, j \in DOMAIN books :
          books[i].isbn = books[j].isbn => i = j
    /\ \A r \in AddInputs, st \in AddStorage :
          get_book_by_isbn(books, r.isbn) # <<>>
              => /\ DoAdd(r, st).result.code \notin {"Success"}
                 /\ DoAdd(r, st).books = books

\* two books are in the catalogue and the ISBN of one is offered again
C25_IsbnOfferedAgain ==
    /\ Len(books) = 2
    /\ \E r \in AddInputs : DoAdd(r, AllOk).result.code = "DuplicateIsbn"

\* the calls in flight that have returned success for book i
Succeeded(i) ==
    {k \in DOMAIN callers :
        /\ callers[k].pc = "done"
        /\ callers[k].code = "Success"
        /\ callers[k].book_id = IntId(i)}

\* C26: borrow takes no lock around its check-then-write steps: a call that
\* has passed the availability check is never held back by what the other
\* calls have done since, its decrement is made and it reports success
\* whatever available_copies is by then, so every book has given out a copy
\* for each call that succeeded, also when that is more copies than it had.
C26_DecrementUnguarded ==
    /\ \A k \in DOMAIN callers :
          callers[k].pc = "update_book_availability"
              => LET b == callers[k].book_id.val
                     o == borrow_step(books, borrow_records, now, callers[k])
                 IN  /\ o.caller.code = "Success"
                     /\ o.books[b].available_copies
                            = books[b].available_copies - 1
    /\ \A i \in DOMAIN books :
          books[i].available_copies
              = books[i].total_copies - Cardinality(Succeeded(i))

\* two interleaved borrows of the book with one copy have both returned
\* success
C26_BothBorrowedTheOneCopy ==
    \E i \in DOMAIN books :
        /\ books[i].total_copies = 1
        /\ Cardinality(Succeeded(i)) >= 2
        /\ books[i].available_copies < 0

\* C27: pay_late_fees looks at the fee before it resolves the book: for a
\* valid patron id a quote <= 0 gives NoFeeDue without a look-up of the
\* book, also when book_id names no book; a quote > 0 for a book_id that
\* names no book (the books table without the row) gives BookNotFound; the
\* gateway is invoked in neither case.
C27_FeeBeforeBook ==
    \A p \in ValidPatrons, b \in AnyBookId, gw \in GatewayReplies :
        LET o == DoPay(p, b, gw)
            gone == pay_late_fees(<<>>, borrow_records, now, p, b, gw)
        IN  /\ Quote(p, b).fee_amount <= 0
                => /\ o.result.code = "NoFeeDue"
                   /\ o.calls = <<"get_borrow_record">>
                   /\ o.sent = <<>>
            /\ Quote(p, b).fee_amount > 0
                => /\ gone.result.code = "BookNotFound"
                   /\ GatewayCalls(gone) = {}
                   /\ gone.sent = <<>>

\* a loan is overdue, so a fee is due for its book, and none for a book id
\* past the end of the catalogue
C27_FeeDueAndUnknownBook ==
    \E p \in ValidPatrons, b \in BookIds, gw \in GatewayReplies :
        /\ Quote(p, b).fee_amount > 0
        /\ pay_late_fees(<<>>, borrow_records, now, p, b, gw).result.code
              = "BookNotFound"
        /\ DoPay(p, IntId(Len(books) + 1), gw).result.code = "NoFeeDue"

\* the active loans of book i
ActiveLoansOfBook(i) ==
    Rows(borrow_records, {r \in BagToSet(borrow_records) :
                             r.book_id = i /\ r.return_date = NULL})

\* C28: copy conservation: every book has available_copies + (its number of
\* active borrow records) = total_copies, in every state reached by
\* add-book, borrow and return steps, the steps in which one storage call
\* reports failure included.
C28_CopyConservation ==
    \A i \in DOMAIN books :
        books[i].available_copies + ActiveLoansOfBook(i)
            = books[i].total_copies

\* C29: a successful pay_late_fees records nothing: it makes no storage call
\* that writes, so the quote of the loan is afterwards what it was, and a
\* second pay_late_fees for the same patron and book at the same instant
\* invokes the gateway again, with the same amount.
C29_PaymentNotRecorded ==
    \A p \in ValidPatrons, b \in AnyBookId, gw \in GatewayReplies :
        LET first == DoPay(p, b, gw)
        IN  first.result.code = "Success"
                => /\ WriteCalls(first.calls) = {}
                   /\ \A again \in GatewayReplies :
                         LET second == DoPay(p, b, again)
                         IN  /\ Cardinality(GatewayCalls(second)) = 1
                             /\ second.sent = first.sent
                             /\ second.sent[1].amount
                                   = Quote(p, b).fee_amount

\* a fee of 1.00 is paid, and can be paid again
C29_PaidOnceMore ==
    \E p \in ValidPatrons, b \in BookIds, gw \in GatewayReplies :
        /\ DoPay(p, b, gw).result.code = "Success"
        /\ DoPay(p, b, gw).sent[1].amount = 2 * FirstTierRate
        /\ Quote(p, b).fee_amount = 2 * FirstTierRate

\* the quote of no loan
NoFee == [fee_amount |-> 0, days_overdue |-> 0, status |-> "ok"]

\* pay_late_fees over the tables bks and recs finds nothing to pay
NothingToPay(bks, recs, p, b) ==
    /\ calculate_late_fee_for_book(get_borrow_record(recs, p, b.val), now)
          = NoFee
    /\ \A gw \in GatewayReplies :
          LET o == pay_late_fees(bks, recs, now, p, b, gw)
          IN  /\ o.result.code = "NoFeeDue"
              /\ GatewayCalls(o) = {}
              /\ o.sent = <<>>

\* C30: the fee that pay_late_fees asks for is that of an active borrow
\* record only: when the patron holds no active loan of the book (never
\* borrowed, or returned, overdue or not), and right after a successful
\* return whatever fee it reported, the quote is fee 0 / 0 days / ok and
\* pay_late_fees returns NoFeeDue without invoking the gateway.
C30_OnlyActiveLoansAreCharged ==
    \A p \in ValidPatrons, b \in AnyBookId :
        /\ Loans(borrow_records, p, b.val) = 0
              => NothingToPay(books, borrow_records, p, b)
        /\ LET r == DoReturn(p, b, AllOk)
           IN  r.result.code = "Success"
                  => NothingToPay(r.books, r.borrow_records, p, b)

\* a loan was returned three days late or later, and time has passed since
C30_ReturnedLateLongAgo ==
    \E r \in BagToSet(borrow_records) :
        /\ r.return_date # NULL
        /\ DaysOverdue(r.due_date, r.return_date) >= 3
        /\ now > r.return_date + TicksPerDay
        /\ Loans(borrow_records, r.patron_id, r.book_id) = 0

====
